---- MODULE Spec2Model ----
(***************************************************************************)
(* MIMICA pose pipeline: the EMA smoother (web-demo/src/smoother.js), the  *)
(* point interpolation helpers of the mapper (web-demo/src/mapper.js) and  *)
(* the two action-recognizer rulesets (web-demo/src/action-recognizer.js   *)
(* and its 8-action variant).                                              *)
(*                                                                         *)
(* Numbers.  A JavaScript number is modelled as a record: a finite value   *)
(* (an integer count of 1/Scale pixels for the smoother, of whole pixels   *)
(* for the recognizer), NaN, or undefined (the value of a missing          *)
(* property).  The blend factor alpha is the rational alpha / AlphaDen.    *)
(* Every input coordinate is a multiple of Scale = AlphaDen^(MaxCalls-1),  *)
(* so the at most MaxCalls-1 blends of a run are exact.                    *)
(***************************************************************************)
EXTENDS Integers, Sequences, FiniteSets, TLC

\* ---- bounds of the model ----
MaxCalls == 3
AlphaDen == 10
MaxFrames == 1
Prec == 10
NormDen == 4
MaxSockets == 6

Scale == AlphaDen ^ (MaxCalls - 1)

\* ---- JavaScript values ----
Val(n) == [k |-> "num", v |-> n]
\* a number with a fraction, as a numerator over Prec
Fix(n) == [k |-> "fix", v |-> n]
NaN == [k |-> "nan", v |-> 0]
Undefined == [k |-> "undef", v |-> 0]

\* null (also what an out-of-range array read, undefined, is taken for: both
\* are falsy and both spread to {}).
Null == [null |-> TRUE, x |-> Undefined, y |-> Undefined]
Obj(x, y) == [null |-> FALSE, x |-> x, y |-> y]
Pt(x, y) == Obj(Val(x), Val(y))
EmptyObj == Obj(Undefined, Undefined)

Truthy(p) == ~p.null
IsFinite(a) == a.k \in {"num", "fix"}
IsFinitePoint(p) == Truthy(p) /\ IsFinite(p.x) /\ IsFinite(p.y)

\* { ...p }: the own properties of p copied into a fresh object; spreading
\* null or undefined gives {}.
Spread(p) == IF p.null THEN EmptyObj ELSE Obj(p.x, p.y)

\* arr[i] of a JavaScript array (0-based i), undefined past the end.
At(arr, i) == IF i + 1 <= Len(arr) THEN arr[i + 1] ELSE Null

\* An array reference or null.
NullArr == [isNull |-> TRUE, items |-> <<>>]
Arr(s) == [isNull |-> FALSE, items |-> s]

\* Before the first call: no arguments, no {elbow, wrist}.
NoMapArgs == [landmarks |-> <<>>, width |-> 0, height |-> 0, mirror |-> FALSE]
NoSolution == [isNull |-> TRUE, elbow |-> Null, wrist |-> Null]

\* ---- mapper.js: interpolation ----
\* a + (b - a) * t, t = tNum / AlphaDen; NaN as soon as an operand is not a
\* finite number (undefined converts to NaN).
lerpSwapped(a, b, t) ==
    IF a.k = "num" /\ b.k = "num"
    THEN Val(b.v + ((a.v - b.v) * t) \div AlphaDen)
    ELSE NaN

lerp(a, b, t) ==
    IF a.k = "num" /\ b.k = "num"
    THEN Val(a.v + ((b.v - a.v) * t) \div AlphaDen)
    ELSE NaN

lerpPointDropsMissing(p1, p2, t) ==
    IF ~Truthy(p1) THEN Spread(p2)
    ELSE IF ~Truthy(p2) THEN Null
    ELSE Obj(lerp(p1.x, p2.x, t), lerp(p1.y, p2.y, t))

lerpPointBlendsFresh(p1, p2, t) ==
    IF ~Truthy(p1) THEN (IF Truthy(p2) THEN Obj(lerp(Val(0), p2.x, t), lerp(Val(0), p2.y, t)) ELSE EmptyObj)
    ELSE IF ~Truthy(p2) THEN Spread(p1)
    ELSE Obj(lerp(p1.x, p2.x, t), lerp(p1.y, p2.y, t))

lerpPoint(p1, p2, t) ==
    IF ~Truthy(p1) THEN Spread(p2)
    ELSE IF ~Truthy(p2) THEN Spread(p1)
    ELSE Obj(lerp(p1.x, p2.x, t), lerp(p1.y, p2.y, t))

\* ---- mapper.js: landmarks to pixel coordinates ----
\* A landmark holds normalized coordinates as numerators over NormDen; a
\* mapped point holds pixels in units of 1/NormDen, so that landmark.x * width
\* is the product of the numerator and the width.
Times(a, n) == IF a.k = "num" THEN Val(a.v * n) ELSE NaN
Minus(n, a) == IF a.k = "num" THEN Val(n - a.v) ELSE NaN

landmarksToPointsAlwaysMirrors(lms, width, height, mirror) ==
    [i \in 1..Len(lms) |->
        IF ~Truthy(lms[i]) THEN Null
        ELSE Obj(Minus(width * NormDen, Times(lms[i].x, width)), Times(lms[i].y, height))]

landmarksToPointsSkipsAbsent(lms, width, height, mirror) ==
    LET present == SelectSeq(lms, Truthy)
    IN [i \in 1..Len(present) |->
           LET x == Times(present[i].x, width)
               y == Times(present[i].y, height)
           IN Obj(IF mirror THEN Minus(width * NormDen, x) ELSE x, y)]

landmarksToPoints(lms, width, height, mirror) ==
    [i \in 1..Len(lms) |->
        IF ~Truthy(lms[i]) THEN Null
        ELSE LET x == Times(lms[i].x, width)
                 y == Times(lms[i].y, height)
             IN Obj(IF mirror THEN Minus(width * NormDen, x) ELSE x, y)]

\* ---- mapper.js: two-bone inverse kinematics ----
X(p) == p.x.v
Y(p) == p.y.v
Abs(n) == IF n < 0 THEN 0 - n ELSE n

RECURSIVE SqrtSearch(_, _, _)
SqrtSearch(n, lo, hi) ==
    IF lo >= hi THEN lo
    ELSE LET mid == (lo + hi + 1) \div 2
         IN IF mid * mid <= n THEN SqrtSearch(n, mid, hi)
                              ELSE SqrtSearch(n, lo, mid - 1)

\* Math.hypot(dx, dy), dx and dy in pixels, the result in 1/Prec pixel.
Hypot(dx, dy) == SqrtSearch((dx * dx + dy * dy) * Prec * Prec, 0, 46340)
\* the same with dx, dy already in 1/Prec pixel.
HypotP(dx, dy) == SqrtSearch(dx * dx + dy * dy, 0, 46340)

\* The points given to solveIK hold whole pixels.
IsWholePoint(p) == Truthy(p) /\ p.x.k = "num" /\ p.y.k = "num"

\* squared distance(p1, p2), in pixels
distanceSq(p1, p2) == (X(p2) - X(p1)) * (X(p2) - X(p1)) + (Y(p2) - Y(p1)) * (Y(p2) - Y(p1))
\* distance(p1, p2) in units of 1/Prec pixel, rounded down
distance(p1, p2) ==
    IF ~Truthy(p1) \/ ~Truthy(p2) THEN 0 ELSE Hypot(X(p2) - X(p1), Y(p2) - Y(p1))

\* solveIK(p1, p2, p3): null, or {elbow, wrist}.
\*   L1, L2, D  the squares of l1, l2 and dist
\*   dist > l1 + l2 is decided exactly: D - L1 - L2 > 2 * l1 * l2
\*   with N = L1 + D - L2 and H = sqrt(4 * L1 * D - N * N), cos(angle1) is
\*   N / (2 * l1 * dist) and sin(angle1) is H / (2 * l1 * dist), so that
\*   l1 * cos(angle2 - angle1) = (dx * N + dy * H) / (2 * D) and
\*   l1 * sin(angle2 - angle1) = (dy * N - dx * H) / (2 * D).
\*   A zero l1 or dist makes the quotient 0/0 or x/0, acos gives NaN and so
\*   does everything computed from it.
\*   The quotient is computed exactly here: it lies in [-1, 1] for every
\*   chain with nonzero l1 and dist, and is 1 or -1 for a collinear one (where
\*   rounded square roots can carry the JavaScript quotient just past 1).
\* dist > l1 + l2, on the squares
isUnreachableBeyondUpperArm(L1, L2, D) == D > L1

isUnreachable(L1, L2, D) ==
    D - L1 - L2 > 0 /\ (D - L1 - L2) * (D - L1 - L2) > 4 * L1 * L2

\* solveIK past its null test
solvePresent(p1, p2, p3) ==
    IF ~(IsWholePoint(p1) /\ IsWholePoint(p2) /\ IsWholePoint(p3))
    THEN [isNull |-> FALSE, elbow |-> Obj(NaN, NaN), wrist |-> Spread(p3)]
    ELSE
    LET L1 == distanceSq(p1, p2)
        L2 == distanceSq(p2, p3)
        D == distanceSq(p1, p3)
        dx == X(p3) - X(p1)
        dy == Y(p3) - Y(p1)
    IN IF isUnreachable(L1, L2, D)
       THEN LET l1 == distance(p1, p2)
                reach == l1 + distance(p2, p3)
                mag == distance(p1, p3)
                target == Obj(Fix(X(p1) * Prec + (dx * reach * Prec) \div mag),
                              Fix(Y(p1) * Prec + (dy * reach * Prec) \div mag))
            IN [isNull |-> FALSE,
                elbow |-> IF L1 = 0 THEN Obj(NaN, NaN)
                          ELSE Obj(Fix(X(p1) * Prec + (dx * l1 * Prec) \div mag),
                                   Fix(Y(p1) * Prec + (dy * l1 * Prec) \div mag)),
                wrist |-> target]
       ELSE LET N == L1 + D - L2
                R == 4 * L1 * D - N * N
                H == SqrtSearch(R, 0, 46340)
            IN [isNull |-> FALSE,
                elbow |-> IF L1 = 0 \/ D = 0 \/ R < 0 THEN Obj(NaN, NaN)
                          ELSE Obj(Fix(X(p1) * Prec + ((dx * N + dy * H) * Prec) \div (2 * D)),
                                   Fix(Y(p1) * Prec + ((dy * N - dx * H) * Prec) \div (2 * D))),
                wrist |-> Spread(p3)]

solveIKNullWhenDegenerate(p1, p2, p3) ==
    IF ~Truthy(p1) \/ ~Truthy(p2) \/ ~Truthy(p3) \/ p1 = p3 \/ p1 = p2 THEN NoSolution
    ELSE solvePresent(p1, p2, p3)

solveIK(p1, p2, p3) ==
    IF ~Truthy(p1) \/ ~Truthy(p2) \/ ~Truthy(p3) THEN NoSolution
    ELSE solvePresent(p1, p2, p3)

\* this.joints
leftShoulder == 11
rightShoulder == 12
leftElbow == 13
rightElbow == 14
leftWrist == 15
rightWrist == 16

applyIKRightNeedsLeft(points) ==
    IF points.isNull \/ Len(points.items) < 33 THEN points
    ELSE LET leftArm == solveIK(At(points.items, leftShoulder), At(points.items, leftElbow),
                                At(points.items, leftWrist))
             rightArm == solveIK(At(points.items, rightShoulder), At(points.items, rightElbow),
                                 At(points.items, rightWrist))
         IN IF leftArm.isNull THEN points
            ELSE Arr([i \in 1..Len(points.items) |->
                  IF i - 1 = leftElbow THEN leftArm.elbow
                  ELSE IF i - 1 = leftWrist THEN leftArm.wrist
                  ELSE IF ~rightArm.isNull /\ i - 1 = rightElbow THEN rightArm.elbow
                  ELSE IF ~rightArm.isNull /\ i - 1 = rightWrist THEN rightArm.wrist
                  ELSE points.items[i]])

applyIKArmsOnly(points) ==
    IF points.isNull \/ Len(points.items) < 33 THEN points
    ELSE LET leftArm == solveIK(At(points.items, leftShoulder), At(points.items, leftElbow),
                                At(points.items, leftWrist))
             rightArm == solveIK(At(points.items, rightShoulder), At(points.items, rightElbow),
                                 At(points.items, rightWrist))
         IN Arr([i \in 1..(rightWrist + 1) |->
                  IF ~leftArm.isNull /\ i - 1 = leftElbow THEN leftArm.elbow
                  ELSE IF ~leftArm.isNull /\ i - 1 = leftWrist THEN leftArm.wrist
                  ELSE IF ~rightArm.isNull /\ i - 1 = rightElbow THEN rightArm.elbow
                  ELSE IF ~rightArm.isNull /\ i - 1 = rightWrist THEN rightArm.wrist
                  ELSE points.items[i]])

\* applyIK(points): the argument itself when it is null or shorter than 33,
\* else a copy with the solved elbows and wrists written in.
applyIK(points) ==
    IF points.isNull \/ Len(points.items) < 33 THEN points
    ELSE LET leftArm == solveIK(At(points.items, leftShoulder), At(points.items, leftElbow),
                                At(points.items, leftWrist))
             rightArm == solveIK(At(points.items, rightShoulder), At(points.items, rightElbow),
                                 At(points.items, rightWrist))
         IN Arr([i \in 1..Len(points.items) |->
                  IF ~leftArm.isNull /\ i - 1 = leftElbow THEN leftArm.elbow
                  ELSE IF ~leftArm.isNull /\ i - 1 = leftWrist THEN leftArm.wrist
                  ELSE IF ~rightArm.isNull /\ i - 1 = rightElbow THEN rightArm.elbow
                  ELSE IF ~rightArm.isNull /\ i - 1 = rightWrist THEN rightArm.wrist
                  ELSE points.items[i]])

\* ---- smoother.js: state ----
VARIABLES
    alpha,            \* this.alpha, as a numerator over AlphaDen
    previousPoints,   \* this.previousPoints: null or an array of points
    currentPoints,    \* the argument of the latest smooth() call
    result,           \* the value the latest smooth() call returned
    priorPoints,      \* this.previousPoints as the latest smooth() call found it
    calls,            \* number of smooth() calls so far
    lastOp,           \* the latest operation on the smoother or on its arrays,
                      \* with its numeric argument
    resultIs          \* which array object smooth() last returned: "argument"
                      \* (the caller's own array), "stored" (the one
                      \* this.previousPoints refers to), "detached" (neither)

smootherVars == <<alpha, previousPoints, currentPoints, result, priorPoints, calls,
                  lastOp, resultIs>>

\* ---- action recognizer: state, as the app drives it ----
VARIABLES
    appPose,   \* this.pose: the point array handed to recognize(), or null
    label,     \* what recognize() returned for it; "none" before the call
    ruleset,   \* which recognizer classified it: "rich", "minimal", "none"
    frames     \* number of frames that replaced this.pose

recognizerVars == <<appPose, label, ruleset, frames>>

\* ---- mapper.js: the latest call of each method and what it returned ----
VARIABLES
    mapArgs,    \* landmarksToPoints: [landmarks, width, height, mirror]
    mapped,     \* the array landmarksToPoints returned
    ikArg,      \* applyIK: the points argument (an array or null)
    ikResult,   \* what applyIK returned
    chain,      \* solveIK: <<p1, p2, p3>>
    solved      \* what solveIK returned: null or {elbow, wrist}

mapperVars == <<mapArgs, mapped, ikArg, ikResult>>
ikVars == <<chain, solved>>

\* ---- app with the AI backend: connection state ----
VARIABLES
    isAIEnabled,            \* this.isAIEnabled
    isBackendConnected,     \* this.isBackendConnected
    connectionRetryCount,   \* this.connectionRetryCount
    websocket,              \* this.websocket: 0 for null, else the number of a socket
    sockets,                \* readyState of every WebSocket constructed so far
    reconnectTimers         \* pending setTimeout(() => this.connectToBackend(), ...)

backendVars == <<isAIEnabled, isBackendConnected, connectionRetryCount, websocket,
                 sockets, reconnectTimers>>

notSmootherVars == <<recognizerVars, mapperVars, ikVars, backendVars>>
notRecognizerVars == <<smootherVars, mapperVars, ikVars, backendVars>>
notBackendVars == <<smootherVars, recognizerVars, mapperVars, ikVars>>

vars == <<alpha, previousPoints, currentPoints, result, priorPoints, calls,
          lastOp, resultIs,
          appPose, label, ruleset, frames,
          mapArgs, mapped, ikArg, ikResult, chain, solved,
          isAIEnabled, isBackendConnected, connectionRetryCount, websocket,
          sockets, reconnectTimers>>

Op(name, arg) == [op |-> name, arg |-> arg]

\* ---- inputs ----
DefaultAlpha == 3
ConstructorAlphas == {DefaultAlpha, AlphaDen \div 2, AlphaDen + AlphaDen \div 2}
SetAlphaArgs == {0 - 2, AlphaDen \div 2, AlphaDen + 2}

PointA == Pt(0, 0)
PointB == Pt(10 * Scale, 20 * Scale)
InputPoints == {Null, PointA, PointB}
\* Frames of one and of two points, so that a frame can be longer or shorter
\* than the stored one.
FrameLengths == {1, 2}
Frames == UNION {[1..n -> InputPoints] : n \in FrameLengths}
\* indices asked of getPrevious and written by a caller: in range and past the end
Indices == {0, 1, 2}
\* what a caller writes into an array
WrittenPoint == Pt(30 * Scale, 0)

Max(a, b) == IF a >= b THEN a ELSE b
Min(a, b) == IF a <= b THEN a ELSE b

\* constructor(alpha = 0.3)
SmootherInit ==
    /\ alpha \in ConstructorAlphas
    /\ previousPoints = NullArr
    /\ currentPoints = <<>>
    /\ result = NullArr
    /\ priorPoints = NullArr
    /\ calls = 0
    /\ lastOp = Op("constructor", 0)
    /\ resultIs = "detached"
    \* no pose is classified
    /\ appPose = NullArr
    /\ label = "none"
    /\ ruleset = "none"
    /\ frames = 0
    \* no mapper call yet
    /\ mapArgs = NoMapArgs
    /\ mapped = NullArr
    /\ ikArg = NullArr
    /\ ikResult = NullArr
    /\ chain = <<Null, Null, Null>>
    /\ solved = NoSolution
    \* AI vision never enabled
    /\ isAIEnabled = FALSE
    /\ isBackendConnected = FALSE
    /\ connectionRetryCount = 0
    /\ websocket = 0
    /\ sockets = <<>>
    /\ reconnectTimers = 0

\* setAlpha(alpha)
setAlphaUnclamped(a) ==
    /\ alpha' = a
    /\ lastOp' = Op("setAlpha", a)
    /\ UNCHANGED <<previousPoints, currentPoints, result, priorPoints, calls, resultIs>>
    /\ UNCHANGED notSmootherVars

setAlpha(a) ==
    /\ alpha' = Max(0, Min(AlphaDen, a))
    /\ lastOp' = Op("setAlpha", a)
    /\ UNCHANGED <<previousPoints, currentPoints, result, priorPoints, calls, resultIs>>
    /\ UNCHANGED notSmootherVars

\* smooth(currentPoints)
smoothKeepsRawInput(cur) ==
    /\ calls < MaxCalls
    /\ IF previousPoints.isNull
       THEN /\ previousPoints' = Arr([i \in 1..Len(cur) |->
                    IF Truthy(cur[i]) THEN Spread(cur[i]) ELSE Null])
            /\ result' = Arr(cur)
            /\ resultIs' = "argument"
       ELSE LET smoothedPoints == [i \in 1..Len(cur) |->
                    lerpPoint(At(previousPoints.items, i - 1), cur[i], alpha)]
            IN /\ previousPoints' = Arr([i \in 1..Len(cur) |->
                    IF Truthy(cur[i]) THEN Spread(cur[i]) ELSE Null])
               /\ result' = Arr(smoothedPoints)
               /\ resultIs' = "detached"
    /\ currentPoints' = cur
    /\ priorPoints' = previousPoints
    /\ calls' = calls + 1
    /\ lastOp' = Op("smooth", 0)
    /\ UNCHANGED alpha
    /\ UNCHANGED notSmootherVars

smoothBlendsFirstFrame(cur) ==
    /\ calls < MaxCalls
    /\ LET smoothedPoints == [i \in 1..Len(cur) |->
                lerpPoint(At(previousPoints.items, i - 1), cur[i], alpha)]
       IN /\ previousPoints' = Arr(smoothedPoints)
          /\ result' = Arr(smoothedPoints)
          /\ resultIs' = "stored"
    /\ currentPoints' = cur
    /\ priorPoints' = previousPoints
    /\ calls' = calls + 1
    /\ lastOp' = Op("smooth", 0)
    /\ UNCHANGED alpha
    /\ UNCHANGED notSmootherVars

smooth(cur) ==
    /\ calls < MaxCalls
    /\ IF previousPoints.isNull
       THEN /\ previousPoints' = Arr([i \in 1..Len(cur) |->
                    IF Truthy(cur[i]) THEN Spread(cur[i]) ELSE Null])
            /\ result' = Arr(cur)
            /\ resultIs' = "argument"
       ELSE LET smoothedPoints == [i \in 1..Len(cur) |->
                    lerpPoint(At(previousPoints.items, i - 1), cur[i], alpha)]
            IN /\ previousPoints' = Arr(smoothedPoints)
               /\ result' = Arr(smoothedPoints)
               /\ resultIs' = "stored"
    /\ currentPoints' = cur
    /\ priorPoints' = previousPoints
    /\ calls' = calls + 1
    /\ lastOp' = Op("smooth", 0)
    /\ UNCHANGED alpha
    /\ UNCHANGED notSmootherVars

\* getPrevious(index)
getPreviousOfLatestFrame(index) ==
    IF ~previousPoints.isNull /\ Truthy(At(currentPoints, index))
    THEN At(currentPoints, index)
    ELSE Null

getPrevious(index) ==
    IF ~previousPoints.isNull /\ Truthy(At(previousPoints.items, index))
    THEN At(previousPoints.items, index)
    ELSE Null

isInitialized == ~previousPoints.isNull
getCurrent == previousPoints

\* a call of getPrevious(index): it assigns nothing
CallGetPrevious(index) ==
    /\ lastOp' = Op("getPrevious", index)
    /\ UNCHANGED <<alpha, previousPoints, currentPoints, result, priorPoints, calls, resultIs>>
    /\ UNCHANGED notSmootherVars

\* reset()
resetKeepsState ==
    /\ lastOp' = Op("reset", 0)
    /\ UNCHANGED <<alpha, previousPoints, currentPoints, result, priorPoints, calls, resultIs>>
    /\ UNCHANGED notSmootherVars

reset ==
    /\ previousPoints' = NullArr
    /\ resultIs' = (IF resultIs = "stored" THEN "detached" ELSE resultIs)
    /\ lastOp' = Op("reset", 0)
    /\ UNCHANGED <<alpha, currentPoints, result, priorPoints, calls>>
    /\ UNCHANGED notSmootherVars

\* ---- a caller that writes into the arrays it holds ----
\* arr[i] = q, or a write to a field of arr[i], for an in-range i
WriteAt(arr, i, q) == [arr EXCEPT ![i + 1] = q]

\* The caller writes into the array smooth() last returned. That array is
\* the caller's argument after a cold start and this.previousPoints after a
\* blend (smoother.js:21, 29-30).
WriteReturned(i, q) ==
    /\ ~result.isNull /\ i < Len(result.items)
    /\ result' = Arr(WriteAt(result.items, i, q))
    /\ currentPoints' = (IF resultIs = "argument" THEN WriteAt(currentPoints, i, q)
                         ELSE currentPoints)
    /\ previousPoints' = (IF resultIs = "stored" THEN Arr(WriteAt(previousPoints.items, i, q))
                          ELSE previousPoints)
    /\ lastOp' = Op("writeReturned", i)
    /\ UNCHANGED <<alpha, priorPoints, calls, resultIs>>
    /\ UNCHANGED notSmootherVars

\* The caller writes into the array it passed to smooth().
WriteArgument(i, q) ==
    /\ calls > 0 /\ i < Len(currentPoints)
    /\ currentPoints' = WriteAt(currentPoints, i, q)
    /\ result' = (IF resultIs = "argument" THEN Arr(WriteAt(result.items, i, q)) ELSE result)
    /\ lastOp' = Op("writeArgument", i)
    /\ UNCHANGED <<alpha, previousPoints, priorPoints, calls, resultIs>>
    /\ UNCHANGED notSmootherVars

\* The caller writes into the array getCurrent() handed out, which is
\* this.previousPoints itself (smoother.js:38).
WriteGetCurrent(i, q) ==
    /\ ~getCurrent.isNull /\ i < Len(getCurrent.items)
    /\ previousPoints' = Arr(WriteAt(previousPoints.items, i, q))
    /\ result' = (IF resultIs = "stored" THEN Arr(WriteAt(result.items, i, q)) ELSE result)
    /\ lastOp' = Op("writeGetCurrent", i)
    /\ UNCHANGED <<alpha, currentPoints, priorPoints, calls, resultIs>>
    /\ UNCHANGED notSmootherVars

\* ======================= action recognizer =======================
\* Distances are kept in units of 1/Prec pixel, rounded down; y and x
\* comparisons between landmarks are on whole pixels.

Dist(p, q) == Hypot(X(p) - X(q), Y(p) - Y(q))

\* constructor(): the thresholds of the recognizer.
SITTING_HIP_KNEE_THRESHOLD == 20
PICKING_HAND_HIP_THRESHOLD == 50
KICKING_KNEE_HIP_THRESHOLD == 40

\* getPoint(pose, index)
getPoint(pose, index) ==
    IF ~pose.isNull /\ Truthy(At(pose.items, index)) THEN At(pose.items, index) ELSE Null

\* The landmarks recognize() retrieves first.
Landmarks(pose) ==
    [nose |-> getPoint(pose, 0),
     leftShoulder |-> getPoint(pose, 11), rightShoulder |-> getPoint(pose, 12),
     leftElbow |-> getPoint(pose, 13), rightElbow |-> getPoint(pose, 14),
     leftWrist |-> getPoint(pose, 15), rightWrist |-> getPoint(pose, 16),
     leftHip |-> getPoint(pose, 23), rightHip |-> getPoint(pose, 24),
     leftKnee |-> getPoint(pose, 25), rightKnee |-> getPoint(pose, 26),
     leftAnkle |-> getPoint(pose, 27), rightAnkle |-> getPoint(pose, 28)]

requiredPointsNoAnkles(L) ==
    {L.nose, L.leftShoulder, L.rightShoulder, L.leftElbow, L.rightElbow,
     L.leftWrist, L.rightWrist, L.leftHip, L.rightHip, L.leftKnee, L.rightKnee}

requiredPoints(L) ==
    {L.nose, L.leftShoulder, L.rightShoulder, L.leftElbow, L.rightElbow,
     L.leftWrist, L.rightWrist, L.leftHip, L.rightHip, L.leftKnee, L.rightKnee,
     L.leftAnkle, L.rightAnkle}

\* arePointsCollinear(p1, p2, p3, threshold = 25)
arePointsCollinear(p1, p2, p3) ==
    IF ~Truthy(p1) \/ ~Truthy(p2) \/ ~Truthy(p3) THEN FALSE
    ELSE LET dist12 == Dist(p1, p2)
             dist23 == Dist(p2, p3)
             dist13 == Dist(p1, p3)
         IN Abs(dist13 - (dist12 + dist23)) < 25 * Prec

\* Midpoints, in 1/Prec pixel.
shoulderMidpointX(L) == ((X(L.leftShoulder) + X(L.rightShoulder)) * Prec) \div 2
shoulderMidpointY(L) == ((Y(L.leftShoulder) + Y(L.rightShoulder)) * Prec) \div 2
hipMidpointX(L) == ((X(L.leftHip) + X(L.rightHip)) * Prec) \div 2
hipMidpointY(L) == ((Y(L.leftHip) + Y(L.rightHip)) * Prec) \div 2
wristDistance(L) == Dist(L.leftWrist, L.rightWrist)
shoulderToHipDist(L) ==
    HypotP(shoulderMidpointX(L) - hipMidpointX(L), shoulderMidpointY(L) - hipMidpointY(L))

\* ---- the predicates of the rich ruleset, in source order ----
isTPose(L) ==
    /\ arePointsCollinear(L.leftShoulder, L.leftElbow, L.leftWrist)
    /\ arePointsCollinear(L.rightShoulder, L.rightElbow, L.rightWrist)
    /\ Abs(Y(L.leftShoulder) - Y(L.leftElbow)) < 30
    /\ Abs(Y(L.rightShoulder) - Y(L.rightElbow)) < 30
isCrossedArms(L) ==
    /\ Dist(L.leftWrist, L.rightElbow) < 100 * Prec
    /\ Dist(L.rightWrist, L.leftElbow) < 100 * Prec
isVictoryPose(L) ==
    /\ Y(L.leftWrist) < Y(L.leftShoulder) /\ Y(L.rightWrist) < Y(L.rightShoulder)
    /\ X(L.leftWrist) < X(L.leftShoulder) /\ X(L.rightWrist) > X(L.rightShoulder)
isHandsUpYAxisFlipped(L) ==
    Y(L.leftWrist) > Y(L.leftShoulder) /\ Y(L.rightWrist) > Y(L.rightShoulder)
isHandsUp(L) ==
    Y(L.leftWrist) < Y(L.leftShoulder) /\ Y(L.rightWrist) < Y(L.rightShoulder)
isWavingRight(L) ==
    Y(L.rightWrist) < Y(L.rightElbow) /\ Abs(Y(L.rightElbow) - Y(L.rightShoulder)) < 50
isWavingLeft(L) ==
    Y(L.leftWrist) < Y(L.leftElbow) /\ Abs(Y(L.leftElbow) - Y(L.leftShoulder)) < 50
isPunchingRight(L) ==
    /\ arePointsCollinear(L.rightShoulder, L.rightElbow, L.rightWrist)
    /\ Abs(Y(L.rightShoulder) - Y(L.rightWrist)) < 40
isPunchingLeft(L) ==
    /\ arePointsCollinear(L.leftShoulder, L.leftElbow, L.leftWrist)
    /\ Abs(Y(L.leftShoulder) - Y(L.leftWrist)) < 40
isPointingRight(L) ==
    /\ arePointsCollinear(L.rightShoulder, L.rightElbow, L.rightWrist)
    /\ Y(L.rightWrist) < Y(L.rightHip) + 100
isPointingLeft(L) ==
    /\ arePointsCollinear(L.leftShoulder, L.leftElbow, L.leftWrist)
    /\ Y(L.leftWrist) < Y(L.leftHip) + 100
isClapping(L) ==
    /\ wristDistance(L) < 80 * Prec
    /\ Y(L.leftWrist) * Prec > shoulderMidpointY(L)
    /\ Y(L.rightWrist) * Prec > shoulderMidpointY(L)
isThumbsUpRight(L) ==
    Y(L.rightWrist) < Y(L.rightElbow) /\ Y(L.rightElbow) > Y(L.rightShoulder)
isThumbsUpLeft(L) ==
    Y(L.leftWrist) < Y(L.leftElbow) /\ Y(L.leftElbow) > Y(L.leftShoulder)
isDrinkingRight(L) ==
    Dist(L.rightWrist, L.nose) < 60 * Prec /\ Y(L.nose) < Y(L.rightShoulder)
isDrinkingLeft(L) ==
    Dist(L.leftWrist, L.nose) < 60 * Prec /\ Y(L.nose) < Y(L.leftShoulder)
isBrushingTeethRight(L) == Dist(L.rightWrist, L.nose) < 80 * Prec
isBrushingTeethLeft(L) == Dist(L.leftWrist, L.nose) < 80 * Prec
isCombingHairRight(L) == Y(L.rightWrist) < Y(L.nose)
isCombingHairLeft(L) == Y(L.leftWrist) < Y(L.nose)
isTyping(L) ==
    /\ wristDistance(L) < 150 * Prec
    /\ Abs(Y(L.leftWrist) * Prec - hipMidpointY(L)) < 100 * Prec
    /\ Abs(Y(L.rightWrist) * Prec - hipMidpointY(L)) < 100 * Prec
isReadingBook(L) ==
    /\ wristDistance(L) < 120 * Prec
    /\ Y(L.leftWrist) * Prec > shoulderMidpointY(L)
    /\ Y(L.leftWrist) * Prec < hipMidpointY(L)
    /\ Y(L.nose) * Prec > shoulderMidpointY(L)
isDownwardDog(L) ==
    /\ hipMidpointY(L) < shoulderMidpointY(L)
    /\ shoulderMidpointY(L) < Y(L.leftAnkle) * Prec
    /\ shoulderMidpointY(L) < Y(L.rightAnkle) * Prec
    /\ arePointsCollinear(L.leftWrist, L.leftElbow, L.leftShoulder)
    /\ arePointsCollinear(L.leftAnkle, L.leftKnee, L.leftHip)
isSquatting(L) == Y(L.leftHip) > Y(L.leftKnee) /\ Y(L.rightHip) > Y(L.rightKnee)
isJumping(L) == Y(L.leftAnkle) < Y(L.leftKnee) /\ Y(L.rightAnkle) < Y(L.rightKnee)
isKickingRight(L) == arePointsCollinear(L.rightHip, L.rightKnee, L.rightAnkle)
isKickingLeft(L) == arePointsCollinear(L.leftHip, L.leftKnee, L.leftAnkle)
isStretchingUp(L) ==
    /\ Y(L.leftWrist) < Y(L.nose) /\ Y(L.rightWrist) < Y(L.nose)
    /\ arePointsCollinear(L.leftShoulder, L.leftElbow, L.leftWrist)
    /\ arePointsCollinear(L.rightShoulder, L.rightElbow, L.rightWrist)
\* x > hipMidpoint.x + shoulderToHipDist * 0.2, multiplied through by 5.
isSideBendRight(L) ==
    /\ 5 * (X(L.nose) * Prec - hipMidpointX(L)) > shoulderToHipDist(L)
    /\ Y(L.rightWrist) * Prec < shoulderMidpointY(L)
isSideBendLeft(L) ==
    /\ 5 * (hipMidpointX(L) - X(L.nose) * Prec) > shoulderToHipDist(L)
    /\ Y(L.leftWrist) * Prec < shoulderMidpointY(L)
isBoxingStance(L) ==
    Dist(L.leftWrist, L.nose) < 150 * Prec /\ Dist(L.rightWrist, L.nose) < 150 * Prec
isSaluting(L) ==
    /\ Dist(L.rightWrist, L.nose) < 80 * Prec
    /\ arePointsCollinear(L.rightElbow, L.rightShoulder, L.leftShoulder) = FALSE
isFacepalmRight(L) ==
    Dist(L.rightWrist, L.nose) < 50 * Prec /\ Y(L.nose) * Prec > shoulderMidpointY(L)
isFacepalmLeft(L) ==
    Dist(L.leftWrist, L.nose) < 50 * Prec /\ Y(L.nose) * Prec > shoulderMidpointY(L)
\* hipMidpoint.y > shoulderMidpoint.y + shoulderToHipDist * 0.5, times 2.
isSitting(L) ==
    /\ 2 * (hipMidpointY(L) - shoulderMidpointY(L)) > shoulderToHipDist(L)
    /\ Y(L.leftKnee) < Y(L.leftAnkle) /\ Y(L.rightKnee) < Y(L.rightAnkle)
isLeaningLeft(L) == 5 * (hipMidpointX(L) - shoulderMidpointX(L)) > shoulderToHipDist(L)
isLeaningRight(L) == 5 * (shoulderMidpointX(L) - hipMidpointX(L)) > shoulderToHipDist(L)
isWalking(L) ==
    \/ (Y(L.leftKnee) > Y(L.rightKnee) /\ Y(L.rightWrist) > Y(L.leftWrist))
    \/ (Y(L.rightKnee) > Y(L.leftKnee) /\ Y(L.leftWrist) > Y(L.rightWrist))

\* The ordered rules of recognize(), after its precondition, in the four
\* blocks of the source; "" when no rule of a block matches.
classifyGesturesHandsUpFirst(L) ==
    IF isHandsUp(L) THEN "hands_up"
    ELSE IF isTPose(L) THEN "t_pose"
    ELSE IF isCrossedArms(L) THEN "crossed_arms"
    ELSE IF isVictoryPose(L) THEN "victory_pose"
    ELSE IF isWavingRight(L) THEN "waving_right"
    ELSE IF isWavingLeft(L) THEN "waving_left"
    ELSE IF isPunchingRight(L) THEN "punching_right"
    ELSE IF isPunchingLeft(L) THEN "punching_left"
    ELSE IF isPointingRight(L) THEN "pointing_right"
    ELSE IF isPointingLeft(L) THEN "pointing_left"
    ELSE IF isClapping(L) THEN "clapping"
    ELSE IF isThumbsUpRight(L) THEN "thumbs_up_right"
    ELSE IF isThumbsUpLeft(L) THEN "thumbs_up_left"
    ELSE ""

\* Category 1: Gestures & Poses
classifyGestures(L) ==
    IF isTPose(L) THEN "t_pose"
    ELSE IF isCrossedArms(L) THEN "crossed_arms"
    ELSE IF isVictoryPose(L) THEN "victory_pose"
    ELSE IF isHandsUp(L) THEN "hands_up"
    ELSE IF isWavingRight(L) THEN "waving_right"
    ELSE IF isWavingLeft(L) THEN "waving_left"
    ELSE IF isPunchingRight(L) THEN "punching_right"
    ELSE IF isPunchingLeft(L) THEN "punching_left"
    ELSE IF isPointingRight(L) THEN "pointing_right"
    ELSE IF isPointingLeft(L) THEN "pointing_left"
    ELSE IF isClapping(L) THEN "clapping"
    ELSE IF isThumbsUpRight(L) THEN "thumbs_up_right"
    ELSE IF isThumbsUpLeft(L) THEN "thumbs_up_left"
    ELSE ""

\* Category 2: Daily Works & Tasks
classifyDailyTasks(L) ==
    IF isDrinkingRight(L) THEN "drinking_right_hand"
    ELSE IF isDrinkingLeft(L) THEN "drinking_left_hand"
    ELSE IF isBrushingTeethRight(L) THEN "brushing_teeth_right"
    ELSE IF isBrushingTeethLeft(L) THEN "brushing_teeth_left"
    ELSE IF isCombingHairRight(L) THEN "combing_hair_right"
    ELSE IF isCombingHairLeft(L) THEN "combing_hair_left"
    ELSE IF isTyping(L) THEN "typing_on_keyboard"
    ELSE IF isReadingBook(L) THEN "reading_a_book"
    ELSE ""

\* Category 3: Sports & Exercise
classifySports(L) ==
    IF isDownwardDog(L) THEN "yoga_downward_dog"
    ELSE IF isSquatting(L) THEN "squatting"
    ELSE IF isJumping(L) THEN "jumping"
    ELSE IF isKickingRight(L) THEN "kicking_right_leg"
    ELSE IF isKickingLeft(L) THEN "kicking_left_leg"
    ELSE IF isStretchingUp(L) THEN "stretching_arms_up"
    ELSE IF isSideBendRight(L) THEN "stretching_side_bend_right"
    ELSE IF isSideBendLeft(L) THEN "stretching_side_bend_left"
    ELSE IF isBoxingStance(L) THEN "boxing_stance"
    ELSE ""

\* Category 4-8 & Other Actions
classifyOther(L) ==
    IF isSaluting(L) THEN "saluting"
    ELSE IF isFacepalmRight(L) THEN "facepalm_right"
    ELSE IF isFacepalmLeft(L) THEN "facepalm_left"
    ELSE IF isSitting(L) THEN "sitting"
    ELSE IF isLeaningLeft(L) THEN "leaning_left"
    ELSE IF isLeaningRight(L) THEN "leaning_right"
    ELSE IF isWalking(L) THEN "walking"
    ELSE ""

classifyWalkingLost(L) ==
    IF classifyGestures(L) # "" THEN classifyGestures(L)
    ELSE IF classifyDailyTasks(L) # "" THEN classifyDailyTasks(L)
    ELSE IF classifySports(L) # "" THEN classifySports(L)
    ELSE IF classifyOther(L) \notin {"", "walking"} THEN classifyOther(L)
    ELSE "standing"

classify(L) ==
    IF classifyGestures(L) # "" THEN classifyGestures(L)
    ELSE IF classifyDailyTasks(L) # "" THEN classifyDailyTasks(L)
    ELSE IF classifySports(L) # "" THEN classifySports(L)
    ELSE IF classifyOther(L) # "" THEN classifyOther(L)
    ELSE "standing"

\* recognize(pose), rich ruleset
recognize(pose) ==
    IF pose.isNull \/ Len(pose.items) < 33 THEN "unknown"
    ELSE LET L == Landmarks(pose)
         IN IF \E q \in requiredPoints(L) : ~Truthy(q) THEN "unknown"
            ELSE classify(L)

\* ---- the minimal ruleset (8 actions) ----
requiredPointsMinimal(L) ==
    {L.leftHip, L.rightHip, L.leftKnee, L.rightKnee, L.leftWrist, L.rightWrist,
     L.leftShoulder, L.rightShoulder}

isSittingMinimal(L) ==
    /\ Y(L.leftHip) > Y(L.leftKnee) + SITTING_HIP_KNEE_THRESHOLD
    /\ Y(L.rightHip) > Y(L.rightKnee) + SITTING_HIP_KNEE_THRESHOLD
isKickingLeftMinimal(L) == Y(L.leftKnee) < Y(L.leftHip) - KICKING_KNEE_HIP_THRESHOLD
isKickingRightMinimal(L) == Y(L.rightKnee) < Y(L.rightHip) - KICKING_KNEE_HIP_THRESHOLD
isPickingLeft(L) == Y(L.leftWrist) > Y(L.leftHip) + PICKING_HAND_HIP_THRESHOLD
isPickingRight(L) == Y(L.rightWrist) > Y(L.rightHip) + PICKING_HAND_HIP_THRESHOLD
\* shoulderDist < hipDist * 0.6, multiplied through by 5.
isTurnedSideways(L) ==
    LET shoulderDist == Abs(X(L.leftShoulder) - X(L.rightShoulder))
        hipDist == Abs(X(L.leftHip) - X(L.rightHip))
    IN 5 * shoulderDist < 3 * hipDist

classifyMinimalKickBeforeSit(L) ==
    IF isKickingLeftMinimal(L) THEN "kicking_left"
    ELSE IF isKickingRightMinimal(L) THEN "kicking_right"
    ELSE IF isSittingMinimal(L) THEN "sitting"
    ELSE IF isPickingLeft(L) THEN "picking_left"
    ELSE IF isPickingRight(L) THEN "picking_right"
    ELSE IF isTurnedSideways(L) THEN "turned_sideways"
    ELSE "standing"

classifyMinimal(L) ==
    IF isSittingMinimal(L) THEN "sitting"
    ELSE IF isKickingLeftMinimal(L) THEN "kicking_left"
    ELSE IF isKickingRightMinimal(L) THEN "kicking_right"
    ELSE IF isPickingLeft(L) THEN "picking_left"
    ELSE IF isPickingRight(L) THEN "picking_right"
    ELSE IF isTurnedSideways(L) THEN "turned_sideways"
    ELSE "standing"

\* recognize(pose), minimal ruleset
recognizeMinimal(pose) ==
    IF pose.isNull \/ Len(pose.items) < 33 THEN "unknown"
    ELSE LET L == Landmarks(pose)
         IN IF \E q \in requiredPointsMinimal(L) : ~Truthy(q) THEN "unknown"
            ELSE classifyMinimal(L)

\* ---- poses handed to the recognizer ----
\* A full 33-entry pose from its 13 named landmarks; the other entries
\* (eyes, ears, mouth, hands, feet) hold a point near the head.
OtherLandmark == Pt(320, 90)
PoseOf(L) ==
    Arr([i \in 1..33 |->
        CASE i = 1 -> L.nose
          [] i = 12 -> L.leftShoulder [] i = 13 -> L.rightShoulder
          [] i = 14 -> L.leftElbow [] i = 15 -> L.rightElbow
          [] i = 16 -> L.leftWrist [] i = 17 -> L.rightWrist
          [] i = 24 -> L.leftHip [] i = 25 -> L.rightHip
          [] i = 26 -> L.leftKnee [] i = 27 -> L.rightKnee
          [] i = 28 -> L.leftAnkle [] i = 29 -> L.rightAnkle
          [] OTHER -> OtherLandmark])

\* Arms hanging, legs straight.
StandingPose ==
    [nose |-> Pt(320, 100),
     leftShoulder |-> Pt(380, 200), rightShoulder |-> Pt(260, 200),
     leftElbow |-> Pt(420, 270), rightElbow |-> Pt(220, 270),
     leftWrist |-> Pt(400, 350), rightWrist |-> Pt(240, 350),
     leftHip |-> Pt(350, 380), rightHip |-> Pt(290, 380),
     leftKnee |-> Pt(380, 500), rightKnee |-> Pt(260, 500),
     leftAnkle |-> Pt(350, 620), rightAnkle |-> Pt(290, 620)]

\* Shoulders at y=300, elbows at y=250, wrists at y=150, arms bent.
HandsUpPose ==
    [nose |-> Pt(320, 220),
     leftShoulder |-> Pt(380, 300), rightShoulder |-> Pt(260, 300),
     leftElbow |-> Pt(460, 250), rightElbow |-> Pt(180, 250),
     leftWrist |-> Pt(400, 150), rightWrist |-> Pt(240, 150),
     leftHip |-> Pt(350, 460), rightHip |-> Pt(290, 460),
     leftKnee |-> Pt(380, 560), rightKnee |-> Pt(260, 560),
     leftAnkle |-> Pt(350, 640), rightAnkle |-> Pt(290, 640)]

\* Arms stretched out level with the shoulders.
TPose ==
    [StandingPose EXCEPT
        !.leftElbow = Pt(460, 200), !.rightElbow = Pt(180, 200),
        !.leftWrist = Pt(540, 200), !.rightWrist = Pt(100, 200)]

\* Hips dropped below the knees.
CrouchPose ==
    [StandingPose EXCEPT
        !.leftHip = Pt(350, 540), !.rightHip = Pt(290, 540)]

\* The hands-up pose with each wrist on the other side of its shoulder's x.
VictoryPose ==
    [HandsUpPose EXCEPT
        !.leftWrist = Pt(340, 150), !.rightWrist = Pt(300, 150)]

\* Arms and legs bent, the left foot lifted behind the knee.
RestPose ==
    [StandingPose EXCEPT
        !.leftElbow = Pt(450, 270), !.rightElbow = Pt(190, 270),
        !.leftKnee = Pt(420, 560), !.leftAnkle = Pt(400, 540),
        !.rightKnee = Pt(220, 500)]

\* Shoulders much narrower than the hips.
SidewaysPose ==
    [RestPose EXCEPT
        !.leftShoulder = Pt(330, 200), !.rightShoulder = Pt(310, 200)]

BasePoses ==
    {PoseOf(StandingPose), PoseOf(RestPose), PoseOf(HandsUpPose), PoseOf(VictoryPose),
     PoseOf(TPose), PoseOf(CrouchPose), PoseOf(SidewaysPose)}

\* The right hand at the brow with the elbow raised: the wrist within 80 of
\* the nose, not above the elbow.
SalutePose ==
    [RestPose EXCEPT
        !.rightElbow = Pt(200, 100), !.rightWrist = Pt(255, 110)]

\* The head bowed below the shoulders with the right hand on the face.
FacepalmRightPose ==
    [RestPose EXCEPT
        !.nose = Pt(320, 230),
        !.rightElbow = Pt(250, 240), !.rightWrist = Pt(300, 250)]

\* The same with the left hand.
FacepalmLeftPose ==
    [RestPose EXCEPT
        !.nose = Pt(320, 230),
        !.leftElbow = Pt(390, 240), !.leftWrist = Pt(340, 250)]

\* Bent over with both arms straight and stretched past the hips, the head
\* lower than the hands.
StretchUpPose ==
    [RestPose EXCEPT
        !.nose = Pt(320, 600),
        !.leftElbow = Pt(380, 350), !.rightElbow = Pt(260, 350),
        !.leftWrist = Pt(380, 490), !.rightWrist = Pt(260, 490)]

LatePredicatePoses ==
    {PoseOf(SalutePose), PoseOf(FacepalmRightPose), PoseOf(FacepalmLeftPose),
     PoseOf(StretchUpPose)}

\* Where a frame differs from the one before: one landmark moved or lost.
EditIndices == {0, 1, 11, 12, 13, 14, 15, 16, 23, 24, 25, 26, 27, 28, 32}
EditPoints == {Pt(320, 100), Pt(200, 150), Pt(440, 150), Pt(320, 400), Pt(300, 560)}
ShortLengths == {0, 17, 32}

RecognizerInit ==
    /\ appPose \in BasePoses \cup LatePredicatePoses
    /\ label = "none"
    /\ ruleset = "none"
    /\ frames = 0
    \* new Smoother(), never called
    /\ alpha = DefaultAlpha
    /\ previousPoints = NullArr
    /\ currentPoints = <<>>
    /\ result = NullArr
    /\ priorPoints = NullArr
    /\ calls = 0
    /\ lastOp = Op("constructor", 0)
    /\ resultIs = "detached"
    \* no mapper call yet
    /\ mapArgs = NoMapArgs
    /\ mapped = NullArr
    /\ ikArg = NullArr
    /\ ikResult = NullArr
    /\ chain = <<Null, Null, Null>>
    /\ solved = NoSolution
    \* AI vision never enabled
    /\ isAIEnabled = FALSE
    /\ isBackendConnected = FALSE
    /\ connectionRetryCount = 0
    /\ websocket = 0
    /\ sockets = <<>>
    /\ reconnectTimers = 0

\* this.pose = ... (a new frame): one landmark moves.
MoveLandmark(i, q) ==
    /\ frames < MaxFrames
    /\ ~appPose.isNull /\ i < Len(appPose.items)
    /\ appPose' = Arr([appPose.items EXCEPT ![i + 1] = q])
    /\ frames' = frames + 1
    /\ label' = "none" /\ ruleset' = "none"
    /\ UNCHANGED notRecognizerVars

\* a new frame in which one landmark is absent.
DropLandmark(i) ==
    /\ frames < MaxFrames
    /\ ~appPose.isNull /\ i < Len(appPose.items)
    /\ appPose' = Arr([appPose.items EXCEPT ![i + 1] = Null])
    /\ frames' = frames + 1
    /\ label' = "none" /\ ruleset' = "none"
    /\ UNCHANGED notRecognizerVars

\* a point array with fewer than 33 entries.
ShortPose(n) ==
    /\ frames < MaxFrames
    /\ ~appPose.isNull /\ n < Len(appPose.items)
    /\ appPose' = Arr(SubSeq(appPose.items, 1, n))
    /\ frames' = frames + 1
    /\ label' = "none" /\ ruleset' = "none"
    /\ UNCHANGED notRecognizerVars

\* no pose at all.
NoPose ==
    /\ frames < MaxFrames
    /\ ~appPose.isNull
    /\ appPose' = NullArr
    /\ frames' = frames + 1
    /\ label' = "none" /\ ruleset' = "none"
    /\ UNCHANGED notRecognizerVars

\* recognize() that keeps a label once it has one
RecognizeRichKeepsLabel ==
    /\ label' = (IF label \notin {"none", "unknown"} THEN label ELSE recognize(appPose))
    /\ ruleset' = "rich"
    /\ UNCHANGED <<appPose, frames>>
    /\ UNCHANGED notRecognizerVars

\* actionRecognizer.recognize(this.pose), rich ruleset
RecognizeRich ==
    /\ label' = recognize(appPose)
    /\ ruleset' = "rich"
    /\ UNCHANGED <<appPose, frames>>
    /\ UNCHANGED notRecognizerVars

\* actionRecognizer.recognize(this.pose), minimal ruleset
RecognizeMinimal ==
    /\ label' = recognizeMinimal(appPose)
    /\ ruleset' = "minimal"
    /\ UNCHANGED <<appPose, frames>>
    /\ UNCHANGED notRecognizerVars

RecognizerNext ==
    \/ \E i \in EditIndices, q \in EditPoints : MoveLandmark(i, q)
    \/ \E i \in EditIndices : DropLandmark(i)
    \/ \E n \in ShortLengths : ShortPose(n)
    \/ NoPose
    \/ RecognizeRich
    \/ RecognizeMinimal

\* ======================= mapper, as its callers drive it =======================
\* Normalized landmarks: (0.25, 0.5) and (0.5, 0.5) when NormDen is 4.
NormPoints == {Null, Pt(NormDen \div 4, NormDen \div 2), Pt(NormDen \div 2, NormDen \div 2)}
\* a detector result: 33 landmarks, the nose absent
FullLandmarks == [i \in 1..33 |-> IF i = 1 THEN Null ELSE Pt(i % (NormDen + 1), NormDen \div 2)]
LandmarkLists == {<<>>, FullLandmarks} \cup [1..2 -> NormPoints]
Canvases == {<<640, 480>>, <<400, 300>>}

\* Arms, in whole pixels: <<shoulder, elbow, wrist>>.
Shoulders == {Null, Pt(0, 0), Pt(10, 20)}
Elbows == {Null, Pt(0, 0), Pt(30, 0), Pt(50, 0), Pt(10, 60), Pt(40, 40)}
Wrists == {Null, Pt(0, 0), Pt(10, 20), Pt(30, 30), Pt(50, 50), Pt(60, 0), Pt(200, 0), Pt(80, 0)}
LeftArms == {<<Pt(0, 0), Pt(50, 0), Pt(50, 50)>>, <<Pt(0, 0), Pt(30, 0), Pt(200, 0)>>,
             <<Pt(0, 0), Null, Pt(50, 50)>>, <<Pt(0, 0), Pt(30, 0), Pt(0, 0)>>}
RightArms == {<<Pt(10, 20), Pt(40, 40), Pt(30, 30)>>, <<Null, Pt(30, 0), Pt(60, 0)>>,
              <<Pt(10, 20), Pt(10, 60), Pt(50, 50)>>}
\* a 33-point array with the two arms written in
PointsWithArms(l, r) ==
    [i \in 1..33 |->
        IF i - 1 = leftShoulder THEN l[1] ELSE IF i - 1 = leftElbow THEN l[2]
        ELSE IF i - 1 = leftWrist THEN l[3]
        ELSE IF i - 1 = rightShoulder THEN r[1] ELSE IF i - 1 = rightElbow THEN r[2]
        ELSE IF i - 1 = rightWrist THEN r[3]
        ELSE IF i = 1 THEN Null ELSE Pt(i, 2 * i)]
IKInputs == {NullArr, Arr(<<>>), Arr(<<Pt(0, 0), Pt(50, 0)>>)}
            \cup {Arr(PointsWithArms(l, r)) : l \in LeftArms, r \in RightArms}
\* point arrays handed to the smoother: one point, and a full pose
FullFrame == [i \in 1..33 |-> IF i = 1 THEN Null ELSE PointB]
MapperFrames == {<<PointA>>, FullFrame}

MapperInit ==
    /\ mapArgs = NoMapArgs
    /\ mapped = NullArr
    /\ ikArg = NullArr
    /\ ikResult = NullArr
    /\ chain = <<Null, Null, Null>>
    /\ solved = NoSolution
    \* new Smoother(), never called
    /\ alpha = DefaultAlpha
    /\ previousPoints = NullArr
    /\ currentPoints = <<>>
    /\ result = NullArr
    /\ priorPoints = NullArr
    /\ calls = 0
    /\ lastOp = Op("constructor", 0)
    /\ resultIs = "detached"
    \* no pose is classified
    /\ appPose = NullArr
    /\ label = "none"
    /\ ruleset = "none"
    /\ frames = 0
    \* AI vision never enabled
    /\ isAIEnabled = FALSE
    /\ isBackendConnected = FALSE
    /\ connectionRetryCount = 0
    /\ websocket = 0
    /\ sockets = <<>>
    /\ reconnectTimers = 0

\* mapper.landmarksToPoints(landmarks, width, height, mirror)
CallLandmarksToPoints(lms, width, height, mirror) ==
    /\ mapArgs' = [landmarks |-> lms, width |-> width, height |-> height, mirror |-> mirror]
    /\ mapped' = Arr(landmarksToPoints(lms, width, height, mirror))
    /\ UNCHANGED <<ikArg, ikResult>>
    /\ UNCHANGED <<smootherVars, recognizerVars, ikVars, backendVars>>

\* mapper.applyIK(points)
CallApplyIK(points) ==
    /\ ikArg' = points
    /\ ikResult' = applyIK(points)
    /\ UNCHANGED <<mapArgs, mapped>>
    /\ UNCHANGED <<smootherVars, recognizerVars, ikVars, backendVars>>

\* mapper.solveIK(p1, p2, p3)
CallSolveIK(p1, p2, p3) ==
    /\ chain' = <<p1, p2, p3>>
    /\ solved' = solveIK(p1, p2, p3)
    /\ UNCHANGED <<smootherVars, recognizerVars, mapperVars, backendVars>>

MapperNext ==
    \/ \E lms \in LandmarkLists, c \in Canvases, mirror \in BOOLEAN :
           CallLandmarksToPoints(lms, c[1], c[2], mirror)
    \/ \E cur \in MapperFrames : smooth(cur)
    \/ \E points \in IKInputs : CallApplyIK(points)

IKNext == \E p1 \in Shoulders, p2 \in Elbows, p3 \in Wrists : CallSolveIK(p1, p2, p3)

\* ======================= app with the AI backend =======================
maxRetries == 5

\* constructor: AI vision off, no socket, no pending timer
BackendInit ==
    /\ isAIEnabled = FALSE
    /\ isBackendConnected = FALSE
    /\ connectionRetryCount = 0
    /\ websocket = 0
    /\ sockets = <<>>
    /\ reconnectTimers = 0
    \* new Smoother(), never called
    /\ alpha = DefaultAlpha
    /\ previousPoints = NullArr
    /\ currentPoints = <<>>
    /\ result = NullArr
    /\ priorPoints = NullArr
    /\ calls = 0
    /\ lastOp = Op("constructor", 0)
    /\ resultIs = "detached"
    \* no pose is classified
    /\ appPose = NullArr
    /\ label = "none"
    /\ ruleset = "none"
    /\ frames = 0
    \* no mapper call yet
    /\ mapArgs = NoMapArgs
    /\ mapped = NullArr
    /\ ikArg = NullArr
    /\ ikResult = NullArr
    /\ chain = <<Null, Null, Null>>
    /\ solved = NoSolution

\* websocket.close(): a socket that is connecting or open starts closing; its
\* close event follows.
close(s) ==
    IF sockets[s] \in {"CONNECTING", "OPEN"}
    THEN [sockets EXCEPT ![s] = "CLOSING"]
    ELSE sockets

\* connectToBackend(): nothing when this.websocket is open, else a new
\* WebSocket replaces it. The socket it replaces is neither closed nor
\* stripped of its handlers.
connectToBackend ==
    IF websocket # 0 /\ sockets[websocket] = "OPEN"
    THEN UNCHANGED <<websocket, sockets>>
    ELSE /\ Len(sockets) < MaxSockets
         /\ sockets' = Append(sockets, "CONNECTING")
         /\ websocket' = Len(sockets) + 1

\* disconnectFromBackend()
disconnectFromBackend ==
    /\ IF websocket # 0
       THEN sockets' = close(websocket) /\ websocket' = 0
       ELSE UNCHANGED <<websocket, sockets>>
    /\ isBackendConnected' = FALSE

\* toggleAIVision(enabled): the checkbox handler, and the auto-connect timer
\* of setupControls with enabled = true
toggleAIVision(enabled) ==
    /\ isAIEnabled' = enabled
    /\ IF enabled
       THEN connectToBackend /\ UNCHANGED isBackendConnected
       ELSE disconnectFromBackend
    /\ UNCHANGED <<connectionRetryCount, reconnectTimers>>
    /\ UNCHANGED notBackendVars

\* websocket.onopen of socket s
onopen(s) ==
    /\ sockets[s] = "CONNECTING"
    /\ sockets' = [sockets EXCEPT ![s] = "OPEN"]
    /\ isBackendConnected' = TRUE
    /\ connectionRetryCount' = 0
    /\ UNCHANGED <<isAIEnabled, websocket, reconnectTimers>>
    /\ UNCHANGED notBackendVars

\* websocket.onerror of socket s: the connection fails, its close event follows
onerror(s) ==
    /\ sockets[s] \in {"CONNECTING", "OPEN"}
    /\ sockets' = [sockets EXCEPT ![s] = "CLOSING"]
    /\ isBackendConnected' = FALSE
    /\ UNCHANGED <<isAIEnabled, connectionRetryCount, websocket, reconnectTimers>>
    /\ UNCHANGED notBackendVars

\* websocket.onclose of socket s: the server closed an open connection, or a
\* closing one has closed
onclose(s) ==
    /\ sockets[s] \in {"OPEN", "CLOSING"}
    /\ sockets' = [sockets EXCEPT ![s] = "CLOSED"]
    /\ isBackendConnected' = FALSE
    /\ IF isAIEnabled /\ connectionRetryCount < maxRetries
       THEN /\ connectionRetryCount' = connectionRetryCount + 1
            /\ reconnectTimers' = reconnectTimers + 1
            /\ UNCHANGED isAIEnabled
       ELSE IF connectionRetryCount >= maxRetries
       THEN /\ isAIEnabled' = FALSE
            /\ UNCHANGED <<connectionRetryCount, reconnectTimers>>
       ELSE UNCHANGED <<isAIEnabled, connectionRetryCount, reconnectTimers>>
    /\ UNCHANGED websocket
    /\ UNCHANGED notBackendVars

\* the callback of setTimeout(() => this.connectToBackend(), 2000 * count)
reconnectTimerFires ==
    /\ reconnectTimers > 0
    /\ reconnectTimers' = reconnectTimers - 1
    /\ connectToBackend
    /\ UNCHANGED <<isAIEnabled, isBackendConnected, connectionRetryCount>>
    /\ UNCHANGED notBackendVars

BackendNext ==
    \/ \E enabled \in BOOLEAN : toggleAIVision(enabled)
    \/ \E s \in 1..Len(sockets) : onopen(s)
    \/ \E s \in 1..Len(sockets) : onerror(s)
    \/ \E s \in 1..Len(sockets) : onclose(s)
    \/ reconnectTimerFires

\* ---- specifications ----
SmootherNext ==
    \/ \E a \in SetAlphaArgs : setAlpha(a)
    \/ \E cur \in Frames : smooth(cur)
    \/ \E index \in Indices : CallGetPrevious(index)
    \/ reset

\* new Smoother(0.5), with a caller that keeps and writes the arrays
AliasInit ==
    /\ alpha = AlphaDen \div 2
    /\ previousPoints = NullArr
    /\ currentPoints = <<>>
    /\ result = NullArr
    /\ priorPoints = NullArr
    /\ calls = 0
    /\ lastOp = Op("constructor", 0)
    /\ resultIs = "detached"
    /\ appPose = NullArr
    /\ label = "none"
    /\ ruleset = "none"
    /\ frames = 0
    /\ mapArgs = NoMapArgs
    /\ mapped = NullArr
    /\ ikArg = NullArr
    /\ ikResult = NullArr
    /\ chain = <<Null, Null, Null>>
    /\ solved = NoSolution
    \* AI vision never enabled
    /\ isAIEnabled = FALSE
    /\ isBackendConnected = FALSE
    /\ connectionRetryCount = 0
    /\ websocket = 0
    /\ sockets = <<>>
    /\ reconnectTimers = 0

AliasNext ==
    \/ \E cur \in Frames : smooth(cur)
    \/ reset
    \/ \E i \in Indices : WriteReturned(i, WrittenPoint)
    \/ \E i \in Indices : WriteArgument(i, WrittenPoint)
    \/ \E i \in Indices : WriteGetCurrent(i, WrittenPoint)

SmootherSpec == SmootherInit /\ [][SmootherNext]_vars

RecognizerSpec == RecognizerInit /\ [][RecognizerNext]_vars

AliasSpec == AliasInit /\ [][AliasNext]_vars

MapperSpec == MapperInit /\ [][MapperNext]_vars

IKSpec == MapperInit /\ [][IKNext]_vars

BackendSpec == BackendInit /\ [][BackendNext]_vars

\* ======================= smoother claims =======================

\* A step of smooth(): the only action that counts a call.
SmoothStep == calls' = calls + 1

\* out = prev + (cur - prev) * alpha on one coordinate, in exact arithmetic.
IsBlend(out, prev, cur, t) ==
    /\ out.k = "num"
    /\ (out.v - prev.v) * AlphaDen = (cur.v - prev.v) * t

\* C1: on every smooth() call that finds a stored state, at each index where
\* the stored point and the current point are both present, the result is
\* stored + (current - stored) * alpha on x and on y; and after every
\* smooth() call the stored state holds the values that call returned, so
\* "stored" is the preceding call's output, not the preceding raw input.
C1_EmaRecursion ==
    [][SmoothStep =>
        /\ ~previousPoints.isNull =>
            \A i \in 1..Len(currentPoints') :
                LET prev == At(previousPoints.items, i - 1)
                    cur == currentPoints'[i]
                    out == result'.items[i]
                IN (IsFinitePoint(prev) /\ IsFinitePoint(cur)) =>
                    /\ Truthy(out)
                    /\ IsBlend(out.x, prev.x, cur.x, alpha)
                    /\ IsBlend(out.y, prev.y, cur.y, alpha)
        /\ previousPoints' = result'
    ]_vars

\* alpha = 0.5, frames [{0,0}] then [{10,20}] give [{5,10}].
C1_Witness ==
    /\ calls = 2
    /\ 2 * alpha = AlphaDen
    /\ priorPoints = Arr(<<PointA>>)
    /\ currentPoints = <<PointB>>
    /\ result = Arr(<<Pt(5 * Scale, 10 * Scale)>>)
    /\ previousPoints = result

\* C2: a smoother on which smooth() has not been called is not initialized
\* and getCurrent() is null; a smooth() call that finds no stored state
\* returns its input unchanged, stores a copy of it and makes
\* isInitialized() true.
C2_ColdStart ==
    /\ [](calls = 0 => (~isInitialized /\ getCurrent = NullArr))
    /\ [][(SmoothStep /\ previousPoints.isNull) =>
            /\ result' = Arr(currentPoints')
            /\ previousPoints' = Arr(currentPoints')
            /\ isInitialized'
       ]_vars

C2_Witness ==
    /\ calls = 1
    /\ priorPoints.isNull
    /\ currentPoints = <<PointB, Null>>
    /\ result = Arr(<<PointB, Null>>)
    /\ isInitialized
    /\ alpha = DefaultAlpha

C5_FreshPointAdopted ==
    [][(SmoothStep /\ ~previousPoints.isNull) =>
        \A i \in 1..Len(currentPoints') :
            (~Truthy(At(previousPoints.items, i - 1)) /\ IsFinitePoint(currentPoints'[i]))
                => result'.items[i] = currentPoints'[i]
    ]_vars

C5_Witness ==
    /\ calls = 2
    /\ alpha = DefaultAlpha
    /\ priorPoints = Arr(<<PointA, Null>>)
    /\ currentPoints = <<PointA, PointB>>
    /\ result.items[2] = PointB

\* C6: when a point is absent both in the stored state and in the new frame,
\* smooth() returns null (absent) at that index, not an object.
C6_BothAbsentGivesNull ==
    (calls > 0 /\ ~priorPoints.isNull) =>
        \A i \in 1..Len(currentPoints) :
            (i <= Len(priorPoints.items) /\ priorPoints.items[i] = Null
                /\ currentPoints[i] = Null)
                => result.items[i] = Null

\* ======================= recognizer claims =======================

\* Landmark indices the claims name as required.
RequiredRich == {0, 11, 12, 13, 14, 15, 16, 23, 24, 25, 26, 27, 28}
RequiredMinimal == {11, 12, 15, 16, 23, 24, 25, 26}

\* The pose is absent, short, or lacks one of the landmarks in req.
FailsPrecondition(P, req) ==
    \/ P.isNull
    \/ Len(P.items) < 33
    \/ \E i \in req : P.items[i + 1] = Null

\* C7: recognize returns "unknown" whenever the pose is absent, has fewer
\* than 33 entries, or lacks a required landmark (13 for the rich ruleset, 8
\* for the minimal one), whatever the other landmarks are.
C7_MissingLandmarkUnknown ==
    /\ (ruleset = "rich" /\ FailsPrecondition(appPose, RequiredRich)) => label = "unknown"
    /\ (ruleset = "minimal" /\ FailsPrecondition(appPose, RequiredMinimal)) => label = "unknown"

\* An otherwise complete pose without its right ankle, rich ruleset.
C7_Witness ==
    /\ ruleset = "rich"
    /\ label = "unknown"
    /\ ~appPose.isNull /\ Len(appPose.items) = 33
    /\ appPose.items[29] = Null
    /\ \A i \in RequiredRich \ {28} : IsFinitePoint(appPose.items[i + 1])

\* The rules of each ruleset in their written order: label and whether the
\* predicate holds of the landmarks.
RichRules(L) ==
    << <<"t_pose", isTPose(L)>>, <<"crossed_arms", isCrossedArms(L)>>,
       <<"victory_pose", isVictoryPose(L)>>, <<"hands_up", isHandsUp(L)>>,
       <<"waving_right", isWavingRight(L)>>, <<"waving_left", isWavingLeft(L)>>,
       <<"punching_right", isPunchingRight(L)>>, <<"punching_left", isPunchingLeft(L)>>,
       <<"pointing_right", isPointingRight(L)>>, <<"pointing_left", isPointingLeft(L)>>,
       <<"clapping", isClapping(L)>>,
       <<"thumbs_up_right", isThumbsUpRight(L)>>, <<"thumbs_up_left", isThumbsUpLeft(L)>>,
       <<"drinking_right_hand", isDrinkingRight(L)>>,
       <<"drinking_left_hand", isDrinkingLeft(L)>>,
       <<"brushing_teeth_right", isBrushingTeethRight(L)>>,
       <<"brushing_teeth_left", isBrushingTeethLeft(L)>>,
       <<"combing_hair_right", isCombingHairRight(L)>>,
       <<"combing_hair_left", isCombingHairLeft(L)>>,
       <<"typing_on_keyboard", isTyping(L)>>, <<"reading_a_book", isReadingBook(L)>>,
       <<"yoga_downward_dog", isDownwardDog(L)>>, <<"squatting", isSquatting(L)>>,
       <<"jumping", isJumping(L)>>,
       <<"kicking_right_leg", isKickingRight(L)>>, <<"kicking_left_leg", isKickingLeft(L)>>,
       <<"stretching_arms_up", isStretchingUp(L)>>,
       <<"stretching_side_bend_right", isSideBendRight(L)>>,
       <<"stretching_side_bend_left", isSideBendLeft(L)>>,
       <<"boxing_stance", isBoxingStance(L)>>, <<"saluting", isSaluting(L)>>,
       <<"facepalm_right", isFacepalmRight(L)>>, <<"facepalm_left", isFacepalmLeft(L)>>,
       <<"sitting", isSitting(L)>>,
       <<"leaning_left", isLeaningLeft(L)>>, <<"leaning_right", isLeaningRight(L)>>,
       <<"walking", isWalking(L)>> >>

MinimalRules(L) ==
    << <<"sitting", isSittingMinimal(L)>>,
       <<"kicking_left", isKickingLeftMinimal(L)>>,
       <<"kicking_right", isKickingRightMinimal(L)>>,
       <<"picking_left", isPickingLeft(L)>>, <<"picking_right", isPickingRight(L)>>,
       <<"turned_sideways", isTurnedSideways(L)>> >>

RuleLabels(rules) == {rules[i][1] : i \in 1..Len(rules)}
TrueRules(rules) == {i \in 1..Len(rules) : rules[i][2]}

\* lab is the label of the earliest rule that holds.
IsFirstMatch(lab, rules) ==
    \E i \in TrueRules(rules) :
        /\ lab = rules[i][1]
        /\ \A j \in TrueRules(rules) : i <= j

\* C8: when some predicate of the ruleset holds of a pose that passes the
\* precondition, the label is that of the earliest-listed predicate that
\* holds (t_pose, crossed_arms, victory_pose, hands_up, waving_right, ... for
\* the rich ruleset; sitting, kicking_left, kicking_right, picking_left,
\* picking_right, turned_sideways for the minimal one).
C8_FirstMatchWins ==
    /\ (ruleset = "rich" /\ ~FailsPrecondition(appPose, RequiredRich)
            /\ TrueRules(RichRules(Landmarks(appPose))) # {})
        => IsFirstMatch(label, RichRules(Landmarks(appPose)))
    /\ (ruleset = "minimal" /\ ~FailsPrecondition(appPose, RequiredMinimal)
            /\ TrueRules(MinimalRules(Landmarks(appPose))) # {})
        => IsFirstMatch(label, MinimalRules(Landmarks(appPose)))

\* A pose that satisfies both the victory_pose and the hands_up predicate
\* (and later ones) is labelled victory_pose.
C8_Witness ==
    /\ ruleset = "rich"
    /\ frames = 1
    /\ ~FailsPrecondition(appPose, RequiredRich)
    /\ isVictoryPose(Landmarks(appPose)) /\ isHandsUp(Landmarks(appPose))
    /\ isCombingHairRight(Landmarks(appPose))
    /\ label = "victory_pose"

\* C9: for a pose that passes the precondition the label is one label of the
\* ruleset's closed set (its rule labels and "standing"), and it is
\* "standing" exactly when no predicate of the ruleset holds.
C9_ClosedLabelSet ==
    /\ (ruleset = "rich" /\ ~FailsPrecondition(appPose, RequiredRich)) =>
        /\ label \in RuleLabels(RichRules(Landmarks(appPose))) \cup {"standing"}
        /\ label = "standing" <=> TrueRules(RichRules(Landmarks(appPose))) = {}
    /\ (ruleset = "minimal" /\ ~FailsPrecondition(appPose, RequiredMinimal)) =>
        /\ label \in RuleLabels(MinimalRules(Landmarks(appPose))) \cup {"standing"}
        /\ label = "standing" <=> TrueRules(MinimalRules(Landmarks(appPose))) = {}

\* A complete pose no rich predicate holds of, labelled standing.
C9_Witness ==
    /\ ruleset = "rich"
    /\ frames = 1
    /\ ~FailsPrecondition(appPose, RequiredRich)
    /\ TrueRules(RichRules(Landmarks(appPose))) = {}
    /\ label = "standing"

\* The scenario: a complete pose with shoulders at y=300, elbows at y=250,
\* wrists at y=150, and the T-pose predicate false.
IsHandsUpScenario(P) ==
    /\ ~FailsPrecondition(P, RequiredRich)
    /\ LET L == Landmarks(P)
       IN /\ Y(L.leftShoulder) = 300 /\ Y(L.rightShoulder) = 300
          /\ Y(L.leftElbow) = 250 /\ Y(L.rightElbow) = 250
          /\ Y(L.leftWrist) = 150 /\ Y(L.rightWrist) = 150
          /\ ~isTPose(L)

\* C10 as claimed: the scenario pose classified with the minimal ruleset is
\* labelled hands_up.
C10_MinimalGivesHandsUp ==
    (ruleset = "minimal" /\ IsHandsUpScenario(appPose)) => label = "hands_up"

\* C10 amended: the scenario pose classified with the rich ruleset is
\* labelled hands_up, or victory_pose (checked before hands_up) when the
\* left wrist is left of the left shoulder and the right wrist right of the
\* right shoulder; with the minimal ruleset, which has no such rule, the
\* label is never hands_up.
C10_RichGivesHandsUp ==
    /\ (ruleset = "rich" /\ IsHandsUpScenario(appPose)) =>
        /\ label \in {"hands_up", "victory_pose"}
        /\ label = "victory_pose" <=> isVictoryPose(Landmarks(appPose))
    /\ ruleset = "minimal" => label # "hands_up"

C10_Witness ==
    /\ ruleset = "rich"
    /\ IsHandsUpScenario(appPose)
    /\ appPose = PoseOf(HandsUpPose)
    /\ label = "hands_up"

\* ======================= mapper claims =======================

\* C11: landmarksToPoints maps every present landmark (nx, ny) to
\* (nx * width, ny * height) when mirror is false and to
\* (width - nx * width, ny * height) when mirror is true; (0.5, 0.5) on
\* 640x480 unmirrored gives (320, 240) and (0.25, 0.5) on 400x300 mirrored
\* gives (300, 150). Mapped coordinates are in 1/NormDen pixel.
C11_MapsToPixels ==
    \A i \in 1..Len(mapArgs.landmarks) :
        LET lm == mapArgs.landmarks[i]
            out == At(mapped.items, i - 1)
            w == mapArgs.width
            h == mapArgs.height
        IN IsFinitePoint(lm) =>
            /\ out = Pt(IF mapArgs.mirror THEN w * NormDen - X(lm) * w ELSE X(lm) * w,
                        Y(lm) * h)
            /\ (2 * X(lm) = NormDen /\ 2 * Y(lm) = NormDen /\ w = 640 /\ h = 480
                    /\ ~mapArgs.mirror)
                => out = Pt(320 * NormDen, 240 * NormDen)
            /\ (4 * X(lm) = NormDen /\ 2 * Y(lm) = NormDen /\ w = 400 /\ h = 300
                    /\ mapArgs.mirror)
                => out = Pt(300 * NormDen, 150 * NormDen)

\* (0.25, 0.5) was mapped onto a mirrored 400x300 canvas and (0.5, 0.5) onto
\* the same canvas in the same call.
C11_Witness ==
    /\ mapArgs.mirror /\ mapArgs.width = 400 /\ mapArgs.height = 300
    /\ Len(mapArgs.landmarks) = 2
    /\ 4 * X(mapArgs.landmarks[1]) = NormDen /\ 2 * Y(mapArgs.landmarks[1]) = NormDen
    /\ IsFinitePoint(mapArgs.landmarks[2])
    /\ mapped.items[1] = Pt(300 * NormDen, 150 * NormDen)
    /\ IsFinitePoint(mapped.items[2])

\* C12: the output of landmarksToPoints has one entry per input entry in the
\* same order: entry k is absent exactly when landmark k is absent, and
\* otherwise is what landmark k alone maps to.
C12_CardinalityAndAbsence ==
    /\ ~mapped.isNull => Len(mapped.items) = Len(mapArgs.landmarks)
    /\ \A i \in 1..Len(mapArgs.landmarks) :
          LET lm == mapArgs.landmarks[i]
              out == At(mapped.items, i - 1)
          IN /\ (out = Null) <=> ~Truthy(lm)
             /\ out = landmarksToPoints(<<lm>>, mapArgs.width, mapArgs.height,
                                         mapArgs.mirror)[1]

\* A list with an absent landmark before a present one was mapped.
C12_Witness ==
    /\ Len(mapArgs.landmarks) = 2
    /\ mapArgs.landmarks[1] = Null /\ Truthy(mapArgs.landmarks[2])
    /\ Len(mapped.items) = 2
    /\ mapped.items[1] = Null /\ IsFinitePoint(mapped.items[2])

\* C13 as stated: every array the mapper, the smoother and applyIK produce
\* has exactly 33 entries, whatever the input.
C13_AlwaysLength33 ==
    /\ ~mapped.isNull => Len(mapped.items) = 33
    /\ ~result.isNull => Len(result.items) = 33
    /\ ~ikResult.isNull => Len(ikResult.items) = 33

\* C13, amended: each of the three returns an array with as many entries as
\* the array it was given (so 33 for an input of 33), and so has the stored
\* state of the smoother; applyIK returns null only for null.
C13_LengthPreserved ==
    /\ ~mapped.isNull => Len(mapped.items) = Len(mapArgs.landmarks)
    /\ ~result.isNull => Len(result.items) = Len(currentPoints)
    /\ (lastOp.op = "smooth") => (~result.isNull /\ ~previousPoints.isNull
                               /\ Len(previousPoints.items) = Len(currentPoints))
    /\ ikResult.isNull = ikArg.isNull
    /\ Len(ikResult.items) = Len(ikArg.items)

\* Each of the three was called with 33 entries and returned 33.
C13_Witness ==
    /\ Len(mapArgs.landmarks) = 33 /\ Len(mapped.items) = 33
    /\ Len(currentPoints) = 33 /\ Len(result.items) = 33
    /\ ~ikArg.isNull /\ Len(ikArg.items) = 33 /\ Len(ikResult.items) = 33
    /\ ikResult # ikArg

\* ======================= smoother claims, continued =======================

\* C14: in every reachable state of a Smoother, whatever the constructor
\* was given, alpha lies in [0, 1].
C14_AlphaInUnitInterval == 0 <= alpha /\ alpha <= AlphaDen

Clamped(a) == IF a < 0 THEN 0 ELSE IF a > AlphaDen THEN AlphaDen ELSE a

\* C15: setAlpha(v) sets alpha to v clamped into [0, 1] and leaves the
\* stored state unchanged; a later smooth() with alpha 0 keeps the stored
\* value of a point present on both sides, and with alpha 1 returns the new
\* frame's.
C15_SetAlphaClamps ==
    /\ [][lastOp'.op = "setAlpha" =>
            /\ alpha' = Clamped(lastOp'.arg)
            /\ UNCHANGED <<previousPoints, result, currentPoints>>]_vars
    /\ [][(SmoothStep /\ ~previousPoints.isNull) =>
            \A i \in 1..Len(currentPoints') :
                LET prev == At(previousPoints.items, i - 1)
                    cur == currentPoints'[i]
                IN (IsFinitePoint(prev) /\ IsFinitePoint(cur)) =>
                    /\ alpha = 0 => result'.items[i] = prev
                    /\ alpha = AlphaDen => result'.items[i] = cur]_vars

\* setAlpha was given a value below 0 and one above 1, and a frame was
\* blended with alpha 0: a point that moved stayed where it was stored.
C15_Witness ==
    /\ alpha = 0 /\ lastOp.op = "smooth" /\ ~priorPoints.isNull
    /\ \E i \in 1..Len(currentPoints) :
          /\ i <= Len(priorPoints.items)
          /\ IsFinitePoint(priorPoints.items[i]) /\ IsFinitePoint(currentPoints[i])
          /\ priorPoints.items[i] # currentPoints[i]
          /\ result.items[i] = priorPoints.items[i]

\* C16: reset() discards the stored state and leaves alpha unchanged:
\* afterwards isInitialized() is false and getPrevious(i) is absent for
\* every i, and the next smooth() returns its input unblended and stores a
\* copy of it, whatever was smoothed before.
C16_ResetIsColdStart ==
    /\ [][lastOp'.op = "reset" =>
            /\ alpha' = alpha
            /\ ~isInitialized'
            /\ \A i \in Indices : getPrevious(i)' = Null]_vars
    /\ [][(SmoothStep /\ calls > 0 /\ ~isInitialized) =>
            /\ result' = Arr(currentPoints')
            /\ previousPoints' = Arr(currentPoints')]_vars

\* Frames were blended, the smoother was reset, and the next frame came back
\* as it was given, although it differs from what was stored before.
C16_Witness ==
    /\ calls = MaxCalls /\ lastOp.op = "smooth" /\ priorPoints.isNull
    /\ result = Arr(currentPoints)
    /\ \E i \in 1..Len(currentPoints) : IsFinitePoint(currentPoints[i])
    /\ previousPoints = Arr(currentPoints)

\* C17: getPrevious(index) is the stored value at index, or absent when the
\* smoother is uninitialized or nothing is stored there; a call changes
\* nothing of the smoother; after the first smooth(points), getPrevious(i)
\* equals points[i].
C17_GetPreviousReadsStored ==
    /\ [](\A index \in Indices :
            getPrevious(index) =
                IF previousPoints.isNull THEN Null
                ELSE IF index >= Len(previousPoints.items) THEN Null
                ELSE previousPoints.items[index + 1])
    /\ [][lastOp'.op = "getPrevious" =>
            UNCHANGED <<alpha, previousPoints, currentPoints, result, calls>>]_vars
    /\ []((calls = 1 /\ isInitialized) =>
            \A i \in 1..Len(currentPoints) : getPrevious(i - 1) = currentPoints[i])

\* getPrevious was called after a blend, for an index whose stored value is
\* neither absent nor what the latest frame held.
C17_Witness ==
    /\ lastOp.op = "getPrevious" /\ calls >= 2
    /\ lastOp.arg < Len(currentPoints)
    /\ IsFinitePoint(getPrevious(lastOp.arg))
    /\ IsFinitePoint(currentPoints[lastOp.arg + 1])
    /\ getPrevious(lastOp.arg) # currentPoints[lastOp.arg + 1]

\* C18: the stored previous state changes only inside smooth() and reset():
\* a caller writing into the array smooth() returned, into the array it
\* passed, or into what getCurrent() handed out changes nothing of it.
C18_StoredChangesOnlyInside ==
    [][previousPoints' # previousPoints => lastOp'.op \in {"smooth", "reset"}]_vars

\* ======================= inverse kinematics claims =======================
\* a coordinate in 1/Prec pixel
InFix(a) == IF a.k = "fix" THEN a.v ELSE a.v * Prec
\* distance between two finite points, in 1/Prec pixel, rounded down
FixDistance(p, q) == HypotP(InFix(q.x) - InFix(p.x), InFix(q.y) - InFix(p.y))

\* C19: for a wrist target out of the arm's reach solveIK returns a wrist
\* on the shoulder-to-target direction, no farther from the shoulder than
\* the reach; shoulder (0,0), elbow (30,0), target (200,0), an arm of reach
\* 60, gives a non-null result whose wrist is within 60 of the shoulder.
C19_UnreachableClampedToReach ==
    /\ (IsWholePoint(chain[1]) /\ IsWholePoint(chain[2]) /\ IsWholePoint(chain[3])
          /\ distance(chain[1], chain[3]) > distance(chain[1], chain[2]) + distance(chain[2], chain[3]) + 1)
        => /\ ~solved.isNull
           /\ FixDistance(chain[1], solved.wrist)
                  <= distance(chain[1], chain[2]) + distance(chain[2], chain[3]) + 1
    /\ chain = <<Pt(0, 0), Pt(30, 0), Pt(200, 0)>>
        => /\ ~solved.isNull
           /\ IsFinitePoint(solved.wrist)
           /\ FixDistance(chain[1], solved.wrist) <= 60 * Prec

\* C20: when the wrist coincides with the shoulder, solveIK places the
\* elbow at shoulder + (l1, 0), with finite coordinates.
C20_DegenerateElbowPlacement ==
    (IsWholePoint(chain[1]) /\ IsWholePoint(chain[2]) /\ chain[3] = chain[1])
    => /\ ~solved.isNull
       /\ IsFinitePoint(solved.elbow)
       /\ InFix(solved.elbow.x) = X(chain[1]) * Prec + distance(chain[1], chain[2])
       /\ InFix(solved.elbow.y) = Y(chain[1]) * Prec

\* C21: for present inputs with finite coordinates every point returned by
\* landmarksToPoints and by applyIK (which writes in the points solveIK
\* returned) has finite x and y, also when shoulder = elbow, elbow = wrist
\* or wrist = shoulder.
C21_OutputsFinite ==
    /\ \A i \in 1..Len(mapArgs.landmarks) :
          IsFinitePoint(mapArgs.landmarks[i]) => IsFinitePoint(At(mapped.items, i - 1))
    /\ (\A i \in 1..Len(ikArg.items) : Truthy(ikArg.items[i]) => IsFinitePoint(ikArg.items[i]))
        => \A i \in 1..Len(ikResult.items) :
              Truthy(ikResult.items[i]) => IsFinitePoint(ikResult.items[i])

\* the bone lengths of the solved arm are those of the given one, within one
\* pixel (the tolerance of the test)
BoneLengthsKept(p1, p2, p3, sol) ==
    /\ ~sol.isNull
    /\ IsFinitePoint(sol.elbow) /\ IsFinitePoint(sol.wrist)
    /\ Abs(FixDistance(p1, sol.elbow) - distance(p1, p2)) <= Prec
    /\ Abs(FixDistance(sol.elbow, sol.wrist) - distance(p2, p3)) <= Prec

\* C22: for any shoulder/elbow/wrist triple within reach solveIK returns an
\* elbow and a wrist that keep both bone lengths; for (0,0), (50,0), (50,50)
\* the wrist is returned at (50,50).
C22_BoneLengthsPreserved ==
    /\ (IsWholePoint(chain[1]) /\ IsWholePoint(chain[2]) /\ IsWholePoint(chain[3]))
        => BoneLengthsKept(chain[1], chain[2], chain[3], solved)
    /\ chain = <<Pt(0, 0), Pt(50, 0), Pt(50, 50)>> => solved.wrist = Pt(50, 50)

\* the arm <<shoulder, elbow, wrist>> at the given indices of a point array
ArmAt(items, sh, el, wr) == <<At(items, sh), At(items, el), At(items, wr)>>
ArmComplete(arm) == Truthy(arm[1]) /\ Truthy(arm[2]) /\ Truthy(arm[3])
\* entries el and wr of the result are the solved ones when the arm is
\* complete, and the input's otherwise
ArmSolved(sh, el, wr) ==
    LET arm == ArmAt(ikArg.items, sh, el, wr)
    IN IF ArmComplete(arm)
       THEN /\ At(ikResult.items, el) = solveIK(arm[1], arm[2], arm[3]).elbow
            /\ At(ikResult.items, wr) = solveIK(arm[1], arm[2], arm[3]).wrist
       ELSE /\ At(ikResult.items, el) = At(ikArg.items, el)
            /\ At(ikResult.items, wr) = At(ikArg.items, wr)

\* C23: applyIK solves the left chain (11, 13, 15) and the right chain
\* (12, 14, 16) independently: a complete chain gets its solved elbow and
\* wrist, an incomplete one keeps the input's entries, and every index other
\* than 13, 14, 15, 16 equals the input's.
C23_ArmsSolvedIndependently ==
    (~ikArg.isNull /\ Len(ikArg.items) >= 33) =>
        /\ ~ikResult.isNull /\ Len(ikResult.items) = Len(ikArg.items)
        /\ ArmSolved(leftShoulder, leftElbow, leftWrist)
        /\ ArmSolved(rightShoulder, rightElbow, rightWrist)
        /\ \A i \in 0..(Len(ikArg.items) - 1) :
              i \notin {leftElbow, rightElbow, leftWrist, rightWrist}
              => At(ikResult.items, i) = At(ikArg.items, i)

\* applyIK was given an array whose left arm lacks its elbow and whose right
\* arm is complete: the right elbow moved, the left arm is the input's.
C23_Witness ==
    /\ ~ikArg.isNull /\ Len(ikArg.items) = 33
    /\ ~ArmComplete(ArmAt(ikArg.items, leftShoulder, leftElbow, leftWrist))
    /\ ArmComplete(ArmAt(ikArg.items, rightShoulder, rightElbow, rightWrist))
    /\ At(ikResult.items, leftWrist) = At(ikArg.items, leftWrist)
    /\ At(ikResult.items, leftElbow) = Null
    /\ IsFinitePoint(At(ikResult.items, rightElbow))
    /\ At(ikResult.items, rightElbow) # At(ikArg.items, rightElbow)

\* C24: solveIK returns null exactly when at least one of shoulder, elbow
\* and wrist is absent, and an {elbow, wrist} object for every triple of
\* present points.
C24_NullIffAbsent ==
    /\ solved.isNull <=> (~Truthy(chain[1]) \/ ~Truthy(chain[2]) \/ ~Truthy(chain[3]))
    /\ ~solved.isNull => (Truthy(solved.elbow) /\ Truthy(solved.wrist))

\* solveIK was given three present points with the wrist on the shoulder and
\* returned an object.
C24_Witness ==
    /\ IsWholePoint(chain[1]) /\ IsWholePoint(chain[2]) /\ chain[3] = chain[1]
    /\ chain[2] # chain[1]
    /\ ~solved.isNull /\ Truthy(solved.elbow) /\ solved.wrist = chain[3]

AllPresentFinite(arr) ==
    arr.isNull \/ \A i \in 1..Len(arr.items) :
        arr.items[i] = Null \/ IsFinitePoint(arr.items[i])

\* C26: after any sequence of smooth() calls on frames whose present points
\* have finite x and y, every non-absent entry of the output and of the
\* stored state is a point with finite x and y; an index absent in the first
\* frame, absent again later and then present yields exactly the new point.
C26_SmoothedPointsFinite ==
    calls > 0 =>
        /\ AllPresentFinite(result)
        /\ AllPresentFinite(previousPoints)
        /\ \A i \in 1..Len(currentPoints) :
            (/\ ~priorPoints.isNull
             /\ i <= Len(priorPoints.items)
             /\ ~IsFinitePoint(priorPoints.items[i])
             /\ IsFinitePoint(currentPoints[i]))
                => result.items[i] = currentPoints[i]

\* The stored entries the blend of C29 reads are finite points or absent.
StoredWasFinite == AllPresentFinite(priorPoints)

Between(out, a, b) ==
    /\ out.k = "num"
    /\ Min(a.v, b.v) <= out.v
    /\ out.v <= Max(a.v, b.v)

\* C29: for alpha in [0,1], on every smooth() call that finds a stored
\* state, at each index where the new frame has a point the output x (and y)
\* is a number between the stored coordinate and the current one, and is the
\* current one where nothing is stored; so the output stays within the
\* minimum and maximum of the values supplied at that index since the reset.
C29_OutputWithinSuppliedRange ==
    (calls > 0 /\ ~priorPoints.isNull /\ lastOp.op = "smooth"
        /\ 0 <= alpha /\ alpha <= AlphaDen) =>
        \A i \in 1..Len(currentPoints) :
            IsFinitePoint(currentPoints[i]) =>
                LET prev == At(priorPoints.items, i - 1)
                    cur == currentPoints[i]
                    out == result.items[i]
                IN IF prev = Null
                   THEN out = cur
                   ELSE /\ Truthy(out)
                        /\ Between(out.x, prev.x, cur.x)
                        /\ Between(out.y, prev.y, cur.y)

\* The same bound on the calls whose stored entries are all finite or absent.
C29_FiniteStoredWithinRange == StoredWasFinite => C29_OutputWithinSuppliedRange


\* ======================= recognizer claims, purity =======================

ReturnLabels == RuleLabels(RichRules(Landmarks(PoseOf(StandingPose)))) \cup {"standing"}

\* Complete poses, one found for each label that some complete pose yields in
\* a port of the JavaScript: the base poses and these, each a base pose with
\* one or two landmarks moved.
LabelPoses ==
    BasePoses \cup
    {PoseOf([SidewaysPose EXCEPT !.nose = Pt(290, 270)]),
     PoseOf([VictoryPose EXCEPT !.rightWrist = Pt(130, 610)]),
     PoseOf([VictoryPose EXCEPT !.leftWrist = Pt(570, 360)]),
     PoseOf([SidewaysPose EXCEPT !.leftWrist = Pt(230, 340)]),
     PoseOf([HandsUpPose EXCEPT !.rightWrist = Pt(180, 690)]),
     PoseOf([RestPose EXCEPT !.nose = Pt(100, 480)]),
     PoseOf([SidewaysPose EXCEPT !.leftElbow = Pt(330, 360), !.leftWrist = Pt(120, 320)]),
     PoseOf([SidewaysPose EXCEPT !.leftWrist = Pt(280, 130), !.leftShoulder = Pt(360, 620)]),
     PoseOf([SidewaysPose EXCEPT !.nose = Pt(230, 310), !.rightShoulder = Pt(10, 650)]),
     PoseOf([RestPose EXCEPT !.rightAnkle = Pt(230, 310)]),
     PoseOf([SidewaysPose EXCEPT !.leftAnkle = Pt(500, 590)]),
     PoseOf([RestPose EXCEPT !.rightHip = Pt(0, 110)]),
     PoseOf([SidewaysPose EXCEPT !.rightHip = Pt(400, 430)]),
     PoseOf([SidewaysPose EXCEPT !.leftHip = Pt(100, 210)]),
     PoseOf([StandingPose EXCEPT !.rightHip = Pt(80, 70)]),
     PoseOf([TPose EXCEPT !.rightShoulder = Pt(50, 670)]),
     PoseOf([TPose EXCEPT !.leftElbow = Pt(630, 680)]),
     PoseOf([RestPose EXCEPT !.rightWrist = Pt(330, 280), !.nose = Pt(590, 260)]),
     PoseOf([SidewaysPose EXCEPT !.leftKnee = Pt(410, 330)]),
     PoseOf([CrouchPose EXCEPT !.rightShoulder = Pt(520, 580), !.leftWrist = Pt(620, 670)]),
     PoseOf([SidewaysPose EXCEPT !.leftShoulder = Pt(160, 630), !.leftHip = Pt(470, 430)]),
     PoseOf([RestPose EXCEPT !.leftHip = Pt(150, 550), !.rightShoulder = Pt(380, 620)]),
     PoseOf([SidewaysPose EXCEPT !.leftElbow = Pt(640, 420)]),
     PoseOf([HandsUpPose EXCEPT !.rightShoulder = Pt(500, 60)]),
     PoseOf([RestPose EXCEPT !.leftWrist = Pt(170, 470)]),
     PoseOf([SidewaysPose EXCEPT !.rightWrist = Pt(350, 530)]),
     PoseOf([TPose EXCEPT !.leftWrist = Pt(400, 160)]),
     PoseOf([TPose EXCEPT !.rightWrist = Pt(160, 70)]),
     PoseOf([StandingPose EXCEPT !.rightShoulder = Pt(140, 600), !.leftHip = Pt(370, 200)])}

\* The poses looked at: those and the pose the app holds.
CandidatePoses == LabelPoses \cup LatePredicatePoses \cup {appPose}

ReturnedFor(lab, poses) ==
    \E P \in poses : ~FailsPrecondition(P, RequiredRich) /\ recognize(P) = lab

\* The labels whose predicate implies one checked earlier.
ShadowedLabels == {"stretching_arms_up", "saluting", "facepalm_right", "facepalm_left"}

\* C28: every label the rich ruleset has a return statement for
\* (stretching_arms_up, saluting, facepalm_right, facepalm_left, boxing_stance,
\* walking and standing included) is returned for at least one pose with all
\* 13 required landmarks present.
C28_EveryLabelReturned ==
    \A lab \in ReturnLabels : ReturnedFor(lab, CandidatePoses)

\* Every other label is returned for a pose of the set.
C28_OtherLabelsReturned ==
    \A lab \in ReturnLabels \ ShadowedLabels : ReturnedFor(lab, LabelPoses)

\* On every complete pose, each of the four late predicates holds only where
\* a predicate checked before it holds, and its label is never returned.
C28_ShadowedByEarlierRule ==
    (ruleset = "rich" /\ ~FailsPrecondition(appPose, RequiredRich)) =>
        LET L == Landmarks(appPose)
        IN /\ isStretchingUp(L) => isCombingHairRight(L)
           /\ isSaluting(L) => isBrushingTeethRight(L)
           /\ isFacepalmRight(L) => isBrushingTeethRight(L)
           /\ isFacepalmLeft(L) => isBrushingTeethLeft(L)
           /\ label \notin ShadowedLabels

\* Poses on which each late predicate holds have been classified.
C28_LatePredicatesHold ==
    /\ ruleset = "rich" /\ ~FailsPrecondition(appPose, RequiredRich)
    /\ isFacepalmRight(Landmarks(appPose))
    /\ isSaluting(Landmarks(appPose))
    /\ label = "brushing_teeth_right"


\* ======================= backend connection claims =======================

\* C30: once AI vision is disabled no later event opens or re-establishes a
\* backend connection until it is enabled again: in every interleaving of
\* onclose, the reconnect timer and the toggle, isBackendConnected is never
\* true while isAIEnabled is false, and the count of automatic reconnect
\* attempts never exceeds maxRetries.
C30_NoConnectionWhileDisabled ==
    /\ isBackendConnected => isAIEnabled
    /\ connectionRetryCount <= maxRetries

\* While AI vision is off and stays off, no WebSocket is constructed.
C30_NoSocketOpenedWhileDisabled ==
    [][(~isAIEnabled /\ ~isAIEnabled') => Len(sockets') = Len(sockets)]_vars

\* The retry counter alone stays within maxRetries.
C30_RetriesBounded == connectionRetryCount <= maxRetries

\* The retry limit is reached and switches AI vision off.
C30_RetriesExhausted ==
    /\ connectionRetryCount = maxRetries
    /\ ~isAIEnabled
    /\ reconnectTimers = 0
    /\ Len(sockets) = maxRetries + 1


\* The first socket was closed by the server, AI vision was switched off, and
\* the socket the reconnect timer then constructed has opened.
C30_ReconnectedAfterDisable ==
    /\ sockets = <<"CLOSED", "OPEN">>
    /\ websocket = 2
    /\ isBackendConnected /\ ~isAIEnabled

====
